---- MODULE Spec2Model ----
(***************************************************************************)
(* Model of twscrape's alternative login:                                  *)
(*   src/twscrape/login_alternative.py  (login_alternative,                *)
(*       login_with_drissionpage, get_email_code, return_none_anyway)      *)
(*   src/twscrape/gmail.py              (gmail_get_email_code,             *)
(*       oauth2_login, get_service, get_emails, _read_message,             *)
(*       _parse_code)                                                      *)
(*   src/twscrape/account.py            (Account, to_rs, from_rs)          *)
(*                                                                         *)
(* Spec and SpecConc run login_alternative, SpecGmail runs one call of     *)
(* gmail_get_email_code, SpecDb writes an account to a row and reads it    *)
(* back.                                                                   *)
(*                                                                         *)
(* Every thread that calls login_alternative is a caller with a program    *)
(* counter.  The browser page (DrissionPage) and the mail backends are the *)
(* environment: every element lookup finds the element or does not, every  *)
(* code retrieval yields a code, nothing, or an exception.                 *)
(***************************************************************************)
EXTENDS Integers, Sequences, FiniteSets, TLC

\* ------------------------------------------------------------------ bounds
\* Number of login_alternative calls one behaviour may start.
MaxCalls == 2

\* Last TOTP time window the clock can reach.
MaxTime == 1

\* ------------------------------------------------------- program constants
\* tenacity.stop_after_attempt(3) on login_with_drissionpage.
MaxAttempts == 3

\* Python's None for optional strings.
None == "None"

\* Threads that may call login_alternative.  MainCaller is the only one that
\* runs under Spec; SpecConc runs them all.
MainCaller == "t1"
Callers == {"t1", "t2"}

\* Values the environment can produce.
Keys == {"k"}
Vals == {"a", "b"}
Maps == UNION {[D -> Vals] : D \in SUBSET Keys}
EmptyMap == << >>
Codes == {"c1", "c2"}

\* LoginConfig(email_first, manual, gmail): every combination of the flags.
Configs == [email_first : BOOLEAN, manual : BOOLEAN, gmail : BOOLEAN]

\* Exception classes retried by the tenacity decorator.
RetryableExceptions == {"PageLoadError", "ElementLoadError"}

\* Elements one attempt looks up: the required ones, and the optional inputs.
RequiredSteps == {"login_elem", "next1", "password", "button", "nav"}
OptionalSteps == {"code1", "email1", "code2", "email2", "mfa"}

VARIABLES
    acc,         \* the Account object shared by the callers
    calls,       \* number of login_alternative calls started
    pc,          \* pc[c]: position of caller c
    imap,        \* imap[c]: local `imap` of login_alternative
    gmail_creds, \* gmail_creds[c]: local `gmail_creds` of login_alternative
    attempt,     \* attempt[c]: tenacity attempt number of the running call
    ends,        \* ends[c]: how each finished attempt of the call ended
    seen,        \* seen[c]: elements the page presented in this attempt
    typed,       \* typed[c]: <<field, value>> typed into the page in this attempt
    polls,       \* polls[c]: get_email_code invocations of this attempt
    totp,        \* totp[c]: TOTP codes computed in this attempt
    result,      \* result[c]: (cookies, headers) of login_with_drissionpage
    sess,        \* sess[c]: browser sessions opened by c and not yet quit
    pre,         \* pre[c]: the account as it was when the call started
    surface,     \* what the login page can show: "any" or "plain"
    page,        \* page[c]: cookies and headers held by c's browser session
    live,        \* live[c]: the session of c's latest attempt is still open
    now,         \* the clock, in TOTP time windows
    gm,          \* one invocation of gmail_get_email_code
    db           \* one Account on its way to a storage row and back

vars == <<acc, calls, pc, imap, gmail_creds, attempt, ends, seen, typed, polls,
          totp, result, sess, pre, surface, page, live, now, gm, db>>

\* The environment.  An "any" surface may present or withhold every element
\* and hand out every session map; a "plain" surface never presents an
\* optional input (confirmation code, e-mail, MFA) and hands out one session.
Presents == IF surface = "plain" THEN {FALSE} ELSE BOOLEAN
SessionMaps == IF surface = "plain" THEN {[k \in Keys |-> "a"]} ELSE Maps

\* DrissionPage's ele() on an element that does not show up within the
\* timeout: it raises ElementNotFoundError when the process has set
\* Settings.raise_when_ele_not_found, and otherwise returns a NoneElement,
\* which raises ElementNotFoundError when a method of it is called.  The
\* module sets nothing, so both are possible; a "plain" surface raises.
LookupRaises == IF surface = "plain" THEN {TRUE} ELSE BOOLEAN

\* -------------------------------------------------------------- data model
\* Account dataclass; locks/stats/last_used/proxy are not touched by login.
NewAccount(active, artifacts, creds, mfa) ==
    [username |-> "user", password |-> "pw", email |-> "mail",
     email_password |-> "mailpw", user_agent |-> "ua",
     active |-> active,
     locks |-> EmptyMap, stats |-> EmptyMap,
     headers |-> artifacts, cookies |-> artifacts,
     gmail_credentials |-> creds, mfa_code |-> mfa,
     proxy |-> None, error_msg |-> None, last_used |-> None]

\* Python truthiness of a dict / of an optional string.
Truthy(m) == DOMAIN m /= {}
TruthyStr(s) == s /= None /\ s /= ""

\* The pair returned by login_with_drissionpage: (None, None) or two dicts.
NoneNone == [kind |-> "none", cookies |-> EmptyMap, headers |-> EmptyMap]
Artifacts(c, h) == [kind |-> "pair", cookies |-> c, headers |-> h]

\* {k: v for k, v in m.items()}
CopyDict(m) == [k \in DOMAIN m |-> m[k]]

Last(s) == s[Len(s)]

\* A browser session before the platform has set anything.
BlankPage == [cookies |-> EmptyMap, headers |-> EmptyMap]

\* How an attempt of login_with_drissionpage ended.
Raised(exc, at) == [how |-> "raise", exc |-> exc, at |-> at]
Returned(at) == [how |-> "return", exc |-> None, at |-> at]

\* ------------------------------------------------ decisions of the code
\* Variant: the early return is missing.
AlreadyActiveIgnored(a) == FALSE

\* login_alternative: `if acc.active: return acc`.
AlreadyActive(a) == a.active

\* login_alternative: `if cfg.email_first and not cfg.manual and not imap`
\* (imap is None at that point).
NeedsImapLogin(cfg, im) == cfg.email_first /\ ~cfg.manual /\ im = None

\* imap_login(email, password): the logged-in IMAP session, or an
\* EmailLoginError raised when the mailbox refuses the login.
ImapLoginOutcomes == {"imap", "raise"}

\* login_alternative: `if cfg.gmail and acc.gmail_credentials and not
\* gmail_creds: gmail_creds = acc.gmail_credentials`.
SelectGmailCreds(cfg, a) ==
    IF cfg.gmail /\ a.gmail_credentials /= None THEN a.gmail_credentials ELSE None

\* The `imap` argument login_with_drissionpage receives: the call in
\* login_alternative passes username, password, email, mfa_code, user_agent,
\* gmail_credentials and base_data_path, so `imap` keeps its default None.
ImapArgument(im) == None

\* get_email_code: which backend is polled.
Strategy(creds, im, email) ==
    IF creds /= None THEN "gmail"
    ELSE IF im /= None /\ TruthyStr(email) THEN "imap"
    ELSE "none"

\* What get_email_code can give back: None without a backend; otherwise what
\* the backend gives: a code, None (gmail_get_email_code found no qualifying
\* message), or an exception (credentials refused, service not built,
\* retries exhausted).
Retrieved(via) == IF via = "none" THEN {None} ELSE Codes \cup {None, "raise"}

\* Variant: the code input is filled from `code` before the retriever's value
\* is bound to it; `code = None` stands one line above.
CodeToTypeUnbound(ps) == IF Len(ps) > 1 THEN ps[Len(ps) - 1].got ELSE None

\* Variant: the first code of the attempt is kept and typed again.
CodeToTypeFirst(ps) == ps[1].got

\* lines 131-138 and 193-200: `if code := get_email_code(...)` followed by
\* `code_elem.input(code)`: the value typed is the one the invocation just
\* made returned.  ps are the invocations of the attempt, that one included.
CodeToType(ps) == ps[Len(ps)].got

\* Variant: the code is computed once, in the first window, and kept.
TotpCached(seed, t) == [seed |-> seed, window |-> 0]

\* lines 237-240: `totp = pyotp.TOTP(mfa_code)` and `totp.now()`: the code of
\* the window t the clock shows when it is read.
TotpNow(seed, t) == [seed |-> seed, window |-> t]

\* Variant: every exception is retried.
RetryIfAnyException(e) == e.how = "raise"

\* tenacity.retry_if_exception_type((PageLoadError, ElementLoadError)).
RetryIf(e) == e.how = "raise" /\ e.exc \in RetryableExceptions

\* Variant: the ceiling is off by one.
StopAfterAttemptEarly(n) == n >= MaxAttempts - 1

\* tenacity.stop_after_attempt(3).
StopAfterAttempt(n) == n >= MaxAttempts

\* return_none_anyway: the retry_error_callback's value.
ReturnNoneAnyway == NoneNone

\* Variant: the copies are dropped and (None, None) returned.
ExtractNothing(ck, hd) == NoneNone

\* login_with_drissionpage: deepcopy of page.cookies(...) and page._headers.
Extract(ck, hd) == Artifacts(ck, hd)

\* Variant: `if cookies is not None and headers is not None`.
LoginSucceededNotNone(res) == res.kind = "pair"

\* login_alternative: `if cookies and headers`.
LoginSucceeded(res) ==
    res.kind = "pair" /\ Truthy(res.cookies) /\ Truthy(res.headers)

\* Variant: a failed login also empties headers and cookies.
StoreResultClearing(a, res) ==
    IF LoginSucceeded(res)
    THEN [a EXCEPT !.active = TRUE,
                   !.headers = CopyDict(res.headers),
                   !.cookies = CopyDict(res.cookies)]
    ELSE [a EXCEPT !.active = FALSE, !.headers = EmptyMap, !.cookies = EmptyMap]

\* Variant: headers and cookies stored the wrong way round.
StoreResultSwapped(a, res) ==
    IF LoginSucceeded(res)
    THEN [a EXCEPT !.active = TRUE,
                   !.headers = CopyDict(res.cookies),
                   !.cookies = CopyDict(res.headers)]
    ELSE [a EXCEPT !.active = FALSE]

\* login_alternative: the writes to the account after the attempt loop.
StoreResult(a, res) ==
    IF LoginSucceeded(res)
    THEN [a EXCEPT !.active = TRUE,
                   !.headers = CopyDict(res.headers),
                   !.cookies = CopyDict(res.cookies)]
    ELSE [a EXCEPT !.active = FALSE]

\* gmail_get_email_code and the storage round trip at rest; they stay at
\* rest while login_alternative runs.
GmIdle == [pc |-> "idle"]
DbIdle == [pc |-> "idle"]

\* ------------------------------------------------------------------- Init
Accounts ==
    {NewAccount(FALSE, EmptyMap, creds, mfa) :
        creds \in {None, "creds"}, mfa \in {None, "seed"}}
    \cup
    {NewAccount(TRUE, [k \in Keys |-> "a"], creds, mfa) :
        creds \in {None, "creds"}, mfa \in {None, "seed"}}

\* Nobody has called login_alternative yet.
AtRest ==
    /\ calls = 0
    /\ pc = [c \in Callers |-> "idle"]
    /\ imap = [c \in Callers |-> None]
    /\ gmail_creds = [c \in Callers |-> None]
    /\ attempt = [c \in Callers |-> 0]
    /\ ends = [c \in Callers |-> << >>]
    /\ seen = [c \in Callers |-> {}]
    /\ typed = [c \in Callers |-> << >>]
    /\ polls = [c \in Callers |-> << >>]
    /\ totp = [c \in Callers |-> 0]
    /\ result = [c \in Callers |-> NoneNone]
    /\ sess = [c \in Callers |-> 0]
    /\ pre = [c \in Callers |-> acc]
    /\ page = [c \in Callers |-> BlankPage]
    /\ live = [c \in Callers |-> FALSE]
    /\ now = 0

Start == acc \in Accounts /\ AtRest

Init == Start /\ surface = "any" /\ gm = GmIdle /\ db = DbIdle

\* ---------------------------------------------------------------- helpers
Goto(c, where) == pc' = [pc EXCEPT ![c] = where]

\* The attempt ends: tenacity looks at the outcome next.
EndAttempt(c, e) ==
    /\ ends' = [ends EXCEPT ![c] = Append(@, e)]
    /\ Goto(c, "tenacity")

\* page.quit()
Quit(c) ==
    /\ sess' = [sess EXCEPT ![c] = @ - 1]
    /\ live' = [live EXCEPT ![c] = FALSE]

\* Variant: the failure is raised as the retryable ElementLoadError.
QuitRaiseElementLoadError(c, at) ==
    /\ Quit(c)
    /\ UNCHANGED result
    /\ EndAttempt(c, Raised("ElementLoadError", at))

\* `page.quit(); return None, None`
QuitReturnNone(c, at) ==
    /\ Quit(c)
    /\ result' = [result EXCEPT ![c] = NoneNone]
    /\ EndAttempt(c, Returned(at))

Type(c, field, value) == typed' = [typed EXCEPT ![c] = Append(@, <<field, value>>)]
See(c, step) == seen' = [seen EXCEPT ![c] = @ \cup {step}]

\* ---------------------------------------------------------------- actions
\* A thread calls login_alternative(acc, cfg).
Call(c) ==
    /\ pc[c] \in {"idle", "done", "raised"}
    /\ calls < MaxCalls
    /\ calls' = calls + 1
    /\ pre' = [pre EXCEPT ![c] = acc]
    /\ imap' = [imap EXCEPT ![c] = None]
    /\ gmail_creds' = [gmail_creds EXCEPT ![c] = None]
    /\ attempt' = [attempt EXCEPT ![c] = 0]
    /\ ends' = [ends EXCEPT ![c] = << >>]
    /\ seen' = [seen EXCEPT ![c] = {}]
    /\ typed' = [typed EXCEPT ![c] = << >>]
    /\ polls' = [polls EXCEPT ![c] = << >>]
    /\ totp' = [totp EXCEPT ![c] = 0]
    /\ UNCHANGED now
    /\ result' = [result EXCEPT ![c] = NoneNone]
    /\ Goto(c, "entry")
    /\ UNCHANGED <<acc, sess, live, surface, gm, db, page>>

\* login_alternative, lines 273-276: an active account is returned as it is.
Entry(c) ==
    /\ pc[c] = "entry"
    /\ IF AlreadyActive(acc) THEN Goto(c, "done") ELSE Goto(c, "config")
    /\ UNCHANGED <<acc, calls, imap, gmail_creds, attempt, ends, seen, typed,
                   polls, totp, now, result, sess, live, pre, surface, gm, db, page>>

\* login_alternative, lines 278-282: the IMAP login (which raises when the
\* mailbox rejects it) and the choice of the Gmail credentials.
Configure(c) ==
    /\ pc[c] = "config"
    /\ \E cfg \in Configs :
         IF NeedsImapLogin(cfg, imap[c])
         THEN \E session \in ImapLoginOutcomes :
                IF session /= "raise"
                THEN /\ imap' = [imap EXCEPT ![c] = session]
                     /\ gmail_creds' = [gmail_creds EXCEPT ![c] = SelectGmailCreds(cfg, acc)]
                     /\ Goto(c, "open")
                ELSE /\ Goto(c, "raised")
                     /\ UNCHANGED <<imap, gmail_creds>>
         ELSE /\ gmail_creds' = [gmail_creds EXCEPT ![c] = SelectGmailCreds(cfg, acc)]
              /\ Goto(c, "open")
              /\ UNCHANGED imap
    /\ UNCHANGED <<acc, calls, attempt, ends, seen, typed, polls, totp, now, result,
                   sess, live, pre, surface, gm, db, page>>

\* login_with_drissionpage, lines 90-108: a new attempt opens a browser on
\* the account's profile directory and loads the login page.
OpenPage(c) ==
    /\ pc[c] = "open"
    /\ attempt' = [attempt EXCEPT ![c] = @ + 1]
    /\ sess' = [sess EXCEPT ![c] = @ + 1]
    /\ live' = [live EXCEPT ![c] = TRUE]
    /\ seen' = [seen EXCEPT ![c] = {}]
    /\ typed' = [typed EXCEPT ![c] = << >>]
    /\ polls' = [polls EXCEPT ![c] = << >>]
    /\ totp' = [totp EXCEPT ![c] = 0]
    /\ UNCHANGED now
    /\ page' = [page EXCEPT ![c] = BlankPage]
    /\ Goto(c, "login_elem")
    /\ UNCHANGED <<acc, calls, imap, gmail_creds, ends, result, pre, surface, gm, db>>

\* lines 110-119: the username input; without it the page is quit and
\* PageLoadError raised.
LoginElem(c) ==
    /\ pc[c] = "login_elem"
    /\ \E found \in BOOLEAN :
         IF found
         THEN /\ See(c, "login_elem")
              /\ Type(c, "username", acc.username)
              /\ Goto(c, "next1")
              /\ UNCHANGED <<ends, sess, live>>
         ELSE /\ Quit(c)
              /\ EndAttempt(c, Raised("PageLoadError", "login_elem"))
              /\ UNCHANGED <<seen, typed>>
    /\ UNCHANGED <<acc, calls, imap, gmail_creds, attempt, polls, totp, now,
                   result, pre, surface, gm, db, page>>

\* lines 121-122: `page.ele("Next").click()` stands outside every try block.
NextButton(c) ==
    /\ pc[c] = "next1"
    /\ \E found \in BOOLEAN :
         IF found
         THEN /\ See(c, "next1")
              /\ Goto(c, "code1")
              /\ UNCHANGED ends
         ELSE /\ EndAttempt(c, Raised("ElementNotFoundError", "next1"))
              /\ UNCHANGED seen
    /\ UNCHANGED <<acc, calls, imap, gmail_creds, attempt, typed, polls,
                   totp, now, result, sess, live, pre, surface, gm, db, page>>

\* lines 124-153 and 186-216: the confirmation-code input.  A missing input,
\* or a missing "Next" after the code was typed, is caught and the attempt
\* goes on; no code ends the attempt with (None, None).
CodeChallenge(c, step, after) ==
    /\ pc[c] = step
    /\ \E present \in Presents :
         IF ~present
         THEN /\ Goto(c, after)
              /\ UNCHANGED <<seen, polls, typed, ends, result, sess, live>>
         ELSE LET via == Strategy(gmail_creds[c], ImapArgument(imap[c]), acc.email) IN
              \E got \in Retrieved(via) :
                /\ See(c, step)
                /\ polls' = [polls EXCEPT ![c] = Append(@, [via |-> via, got |-> got])]
                /\ IF got \in Codes
                   THEN /\ Type(c, "code", CodeToType(polls'[c]))
                        /\ Goto(c, after)
                        /\ UNCHANGED <<ends, result, sess, live>>
                   ELSE /\ QuitReturnNone(c, step)
                        /\ UNCHANGED typed
    /\ UNCHANGED <<acc, calls, imap, gmail_creds, attempt, totp, now, pre, surface, gm, db, page>>

CodeBeforePassword(c) == CodeChallenge(c, "code1", "email1")
CodeAfterPassword(c) == CodeChallenge(c, "code2", "email2")

\* lines 155-162 and 218-225: the e-mail input, typed into when presented.
EmailChallenge(c, step, after) ==
    /\ pc[c] = step
    /\ \E present \in Presents :
         IF present
         THEN /\ See(c, step)
              /\ Type(c, "email", acc.email)
         ELSE UNCHANGED <<seen, typed>>
    /\ Goto(c, after)
    /\ UNCHANGED <<acc, calls, imap, gmail_creds, attempt, ends, polls, totp, now,
                   result, sess, live, pre, surface, gm, db, page>>

EmailBeforePassword(c) == EmailChallenge(c, "email1", "password")
EmailAfterPassword(c) == EmailChallenge(c, "email2", "mfa")

\* lines 164-175: the password input; without it ElementLoadError is raised
\* and the page is left open.
Password(c) ==
    /\ pc[c] = "password"
    /\ \E found \in BOOLEAN :
         IF found
         THEN /\ See(c, "password")
              /\ Type(c, "password", acc.password)
              /\ Goto(c, "button")
              /\ UNCHANGED ends
         ELSE /\ EndAttempt(c, Raised("ElementLoadError", "password"))
              /\ UNCHANGED <<seen, typed>>
    /\ UNCHANGED <<acc, calls, imap, gmail_creds, attempt, polls, totp, now,
                   result, sess, live, pre, surface, gm, db, page>>

\* lines 177-184: the login button; without it ElementLoadError is raised and
\* the page is left open.
LoginButton(c) ==
    /\ pc[c] = "button"
    /\ \E found \in BOOLEAN :
         IF found
         THEN /\ See(c, "button")
              /\ Goto(c, "code2")
              /\ UNCHANGED ends
         ELSE /\ EndAttempt(c, Raised("ElementLoadError", "button"))
              /\ UNCHANGED seen
    /\ UNCHANGED <<acc, calls, imap, gmail_creds, attempt, typed, polls,
                   totp, now, result, sess, live, pre, surface, gm, db, page>>

\* lines 227-246: the MFA input.  Without a seed the attempt ends with
\* (None, None); with one, totp.now() reads the clock, which has gone on by
\* any amount since it was last read, and the code of that window is typed.
Mfa(c) ==
    /\ pc[c] = "mfa"
    /\ \E present \in Presents :
         IF ~present
         THEN /\ Goto(c, "nav")
              /\ UNCHANGED <<seen, totp, now, typed, ends, result, sess, live>>
         ELSE /\ See(c, "mfa")
              /\ IF ~TruthyStr(acc.mfa_code)
                 THEN /\ QuitReturnNone(c, "mfa")
                      /\ UNCHANGED <<totp, now, typed>>
                 ELSE \E t \in now..MaxTime :
                      /\ now' = t
                      /\ totp' = [totp EXCEPT ![c] = @ + 1]
                      /\ Type(c, "mfa", TotpNow(acc.mfa_code, t))
                      /\ Goto(c, "nav")
                      /\ UNCHANGED <<ends, result, sess, live>>
    /\ UNCHANGED <<acc, calls, imap, gmail_creds, attempt, polls, pre, surface, gm, db, page>>

\* lines 249-267: the navigation bar is the logged-in landmark.  Line 252 is
\* `page.ele(NAVIGATION_BAR_SELECTOR, timeout=30)` and nothing is done with
\* what it returns, so the except branch runs only when the lookup itself
\* raises.  Otherwise the session's cookies and headers are copied, the page
\* quit and both returned.
Landmark(c) ==
    /\ pc[c] = "nav"
    /\ \E found \in BOOLEAN, raises \in LookupRaises :
         IF found \/ ~raises
         THEN \E ck \in SessionMaps, hd \in SessionMaps :
                /\ IF found THEN See(c, "nav") ELSE UNCHANGED seen
                /\ page' = [page EXCEPT ![c] = [cookies |-> ck, headers |-> hd]]
                /\ result' = [result EXCEPT ![c] = Extract(ck, hd)]
                /\ Quit(c)
                /\ EndAttempt(c, Returned("nav"))
         ELSE /\ QuitReturnNone(c, "nav")
              /\ UNCHANGED <<seen, page>>
    /\ UNCHANGED <<acc, calls, imap, gmail_creds, attempt, typed, polls,
                   totp, now, pre, surface, gm, db>>

\* The tenacity decorator, lines 58-63: a returned value is passed on; a
\* retryable exception starts the next attempt, or after the last attempt
\* gives return_none_anyway's value; any other exception is re-raised.
Tenacity(c) ==
    /\ pc[c] = "tenacity"
    /\ LET e == Last(ends[c]) IN
         IF e.how = "return"
         THEN /\ Goto(c, "store")
              /\ UNCHANGED result
         ELSE IF RetryIf(e)
         THEN IF StopAfterAttempt(attempt[c])
              THEN /\ result' = [result EXCEPT ![c] = ReturnNoneAnyway]
                   /\ Goto(c, "store")
              ELSE /\ Goto(c, "open")
                   /\ UNCHANGED result
         ELSE /\ Goto(c, "raised")
              /\ UNCHANGED result
    /\ UNCHANGED <<acc, calls, imap, gmail_creds, attempt, ends, seen, typed,
                   polls, totp, now, sess, live, pre, surface, gm, db, page>>

\* login_alternative, lines 295-302.
Store(c) ==
    /\ pc[c] = "store"
    /\ acc' = StoreResult(acc, result[c])
    /\ Goto(c, "done")
    /\ UNCHANGED <<calls, imap, gmail_creds, attempt, ends, seen, typed, polls,
                   totp, now, result, sess, live, pre, surface, gm, db, page>>

Step(c) ==
    \/ Call(c)
    \/ Entry(c)
    \/ Configure(c)
    \/ OpenPage(c)
    \/ LoginElem(c)
    \/ NextButton(c)
    \/ CodeBeforePassword(c)
    \/ EmailBeforePassword(c)
    \/ Password(c)
    \/ LoginButton(c)
    \/ CodeAfterPassword(c)
    \/ EmailAfterPassword(c)
    \/ Mfa(c)
    \/ Landmark(c)
    \/ Tenacity(c)
    \/ Store(c)

\* One thread calls login_alternative, any number of times in a row.
Next == Step(MainCaller)

Spec == Init /\ [][Next]_vars

\* Two threads call login_alternative on the same account at the same time.
\* The page is a plain one: username, password, landmark, each possibly
\* missing.
NextConc == \E c \in Callers : Step(c)

InitConc == Start /\ surface = "plain" /\ gm = GmIdle /\ db = DbIdle

SpecConc == InitConc /\ [][NextConc]_vars

\* ------------------------------------------------- gmail.py: the strings
\* A header value is a sequence of pieces of text; a piece is never split.
\* The pieces below are all the model needs to tell the cases of _parse_code
\* apart.
Space == " "
Whitespace == {" ", "\t"}

\* str.lower(), piece by piece.
LowerPiece(p) ==
    CASE p = "INFO@X.COM" -> "info@x.com"
      [] p = "Your" -> "your"
      [] p = "YOUR" -> "your"
      [] p = "Twitter" -> "twitter"
      [] p = "TWITTER" -> "twitter"
      [] p = "CONFIRMATION" -> "confirmation"
      [] p = "CODE" -> "code"
      [] p = "IS" -> "is"
      [] p = "Welcome" -> "welcome"
      [] p = "X" -> "x"
      [] p = "K7Q" -> "k7q"
      [] OTHER -> p

Lower(s) == [i \in 1..Len(s) |-> LowerPiece(s[i])]

\* `needle in s`
Contains(s, needle) ==
    \E i \in 0..(Len(s) - Len(needle)) :
        \A j \in 1..Len(needle) : s[i + j] = needle[j]

\* s.split(" ")[-1]: what follows the last single space (all of s without one).
LastField(s) ==
    LET at == {i \in 1..Len(s) : s[i] = Space}
        k == IF at = {} THEN 0 ELSE CHOOSE i \in at : \A j \in at : j <= i
    IN  SubSeq(s, k + 1, Len(s))

\* s.strip()
Strip(s) ==
    LET ink == {i \in 1..Len(s) : s[i] \notin Whitespace} IN
    IF ink = {} THEN << >>
    ELSE SubSeq(s, CHOOSE i \in ink : \A j \in ink : i <= j,
                   CHOOSE i \in ink : \A j \in ink : j <= i)

\* A Python `str | None`.
NoStr == [kind |-> "none", text |-> << >>]
Str(s) == [kind |-> "str", text |-> s]

\* `if x:` for a `str | None`.
TruthyText(x) == x.kind = "str" /\ x.text /= << >>

\* The sender and the phrase _parse_code looks for.
PlatformSender == <<"info@x.com">>
CodePhrase == <<"confirmation", " ", "code", " ", "is">>

\* _parse_code, lines 91-92 and 112-116.
ParseCode(m) ==
    LET msg_subj == Lower(m.subject)
        msg_from == Lower(m.from)
    IN  IF Contains(msg_from, PlatformSender) /\ Contains(msg_subj, CodePhrase)
        THEN Str(Strip(LastField(msg_subj)))
        ELSE NoStr

\* The address of a From value: what stands between "<" and ">", or the
\* whole value when there are no angle brackets.
AddressOf(from) ==
    LET lt == {i \in 1..Len(from) : from[i] = "<"}
        gt == {i \in 1..Len(from) : from[i] = ">"}
    IN  IF lt = {} \/ gt = {} THEN from
        ELSE SubSeq(from, (CHOOSE i \in lt : TRUE) + 1, (CHOOSE i \in gt : TRUE) - 1)

\* The codes a subject can end with.
CodeTokens == {"739201", "k7q", "K7Q"}

\* 'Your Twitter confirmation code is N' and the same in capitals.
StandardSubject(n) ==
    <<"Your", " ", "Twitter", " ", "confirmation", " ", "code", " ", "is", " ", n>>
CapitalSubject(n) ==
    <<"YOUR", " ", "TWITTER", " ", "CONFIRMATION", " ", "CODE", " ", "IS", " ", n>>

Subjects ==
    {StandardSubject(n) : n \in CodeTokens}
    \cup {CapitalSubject(n) : n \in CodeTokens}
    \cup {StandardSubject("739201") \o <<" ">>,
          <<"Your", " ", "Twitter", " ", "confirmation", " ", "code", " ", "is", "\t", "739201">>,
          <<"Welcome", " ", "to", " ", "X">>,
          << >>}

\* From values: the platform's address, bare, in capitals and with a display
\* name; another platform address; the address xinfo@x.com; and the address
\* verify@x.com under the display name "info@x.com".
Froms ==
    {<<"info@x.com">>,
     <<"INFO@X.COM">>,
     <<"X", " ", "<", "info@x.com", ">">>,
     <<"verify@x.com">>,
     <<"x", "info@x.com">>,
     <<"info@x.com", " ", "<", "verify@x.com", ">">>,
     << >>}

Messages == [from : Froms, subject : Subjects]

\* -------------------------------------------- gmail.py: the retrieval
\* Messages one unread listing can hold in a behaviour (the request asks for
\* at most 5).
MaxUnread == 2

\* stop_after_attempt(num_retries) of get_emails, num_retries = 5.
NumRetries == 5

\* stop_after_attempt(5) of _read_message.
ReadAttempts == 5

\* google.oauth2.credentials.Credentials as from_authorized_user_info builds
\* it: a valid token is not expired; the refresh token may be empty.
Credentials ==
    {cr \in [valid : BOOLEAN, expired : BOOLEAN, refresh_token : BOOLEAN] :
        cr.valid => ~cr.expired}

\* How gmail_get_email_code ends.
GmRaised(exc) == [how |-> "raise", exc |-> exc, code |-> NoStr]
GmReturned(code) == [how |-> "return", exc |-> None, code |-> code]
GmRunning == [how |-> "running", exc |-> None, code |-> NoStr]

\* gmail_get_email_code has been called with credentials cr.  refreshes,
\* lists and gets count the requests made so far (token refresh, unread
\* listing, message get); unread is the size of the last listing, read the
\* number of its messages read, tries the failed gets of the message being
\* read, and last the message parsed last with what _parse_code gave.
GmCalled(cr) ==
    [pc |-> "oauth", creds |-> cr, refreshes |-> 0, lists |-> 0, unread |-> 0,
     read |-> 0, tries |-> 0, gets |-> 0, out |-> GmRunning,
     last |-> [msg |-> [from |-> << >>, subject |-> << >>], code |-> NoStr]]

\* Variant: the validity test is dropped.
NeedsAuthorizingNever(cr) == FALSE

\* oauth2_login, line 50: `if not creds or not creds.valid`.
NeedsAuthorizing(cr) == ~cr.valid

\* oauth2_login, line 55: `if creds and creds.expired and creds.refresh_token`.
CanRefresh(cr) == cr.expired /\ cr.refresh_token

\* get_emails, lines 150-152: `if number_result == 0: raise NoEmailFoundError`.
NoEmailFound(n) == n = 0

GmEnd(out) == gm' = [gm EXCEPT !.pc = "done", !.out = out]

loginVars == <<acc, calls, pc, imap, gmail_creds, attempt, ends, seen, typed,
               polls, totp, result, sess, pre, surface, page, live, now>>

\* oauth2_login, lines 42-66.
OAuth2Login ==
    /\ gm.pc = "oauth"
    /\ IF ~NeedsAuthorizing(gm.creds)
       THEN gm' = [gm EXCEPT !.pc = "service"]
       ELSE IF CanRefresh(gm.creds)
       THEN \E ok \in BOOLEAN :
              IF ok
              THEN gm' = [gm EXCEPT !.pc = "service", !.refreshes = @ + 1,
                                    !.creds = [valid |-> TRUE, expired |-> FALSE,
                                               refresh_token |-> TRUE]]
              ELSE gm' = [gm EXCEPT !.pc = "done", !.refreshes = @ + 1,
                                    !.out = GmRaised("RefreshError")]
       ELSE GmEnd(GmRaised("Exception"))
    /\ UNCHANGED <<loginVars, db>>

\* get_service, lines 168-175, and the branch of gmail_get_email_code on it.
GetService ==
    /\ gm.pc = "service"
    /\ \E built \in BOOLEAN :
         IF built THEN gm' = [gm EXCEPT !.pc = "list"]
         ELSE GmEnd(GmRaised("EmailLoginError"))
    /\ UNCHANGED <<loginVars, db>>

\* get_emails, lines 139-152: one pass of the Retrying loop.  The list
\* request fails with HttpError or answers with n unread messages; HttpError
\* and NoEmailFoundError are retried until the NumRetries-th attempt, after
\* which tenacity raises RetryError.
ListUnread ==
    /\ gm.pc = "list"
    /\ \E ok \in BOOLEAN, n \in 0..MaxUnread :
         LET lists == gm.lists + 1 IN
         IF ok /\ ~NoEmailFound(n)
         THEN gm' = [gm EXCEPT !.lists = lists, !.unread = n, !.read = 0,
                               !.pc = IF n > 0 THEN "read" ELSE "done",
                               !.out = IF n > 0 THEN GmRunning ELSE GmReturned(NoStr)]
         ELSE IF lists >= NumRetries
         THEN gm' = [gm EXCEPT !.lists = lists, !.unread = 0, !.pc = "done",
                               !.out = GmRaised("RetryError")]
         ELSE gm' = [gm EXCEPT !.lists = lists, !.unread = 0]
    /\ UNCHANGED <<loginVars, db>>

\* get_emails, lines 154-166, with _read_message, lines 118-134: one get
\* request for the next message of the listing.  HttpError is retried until
\* the ReadAttempts-th attempt; a message that was read is parsed, a truthy
\* code returned, and after the last message None is returned.
ReadMessage ==
    /\ gm.pc = "read"
    /\ \E ok \in BOOLEAN, m \in Messages :
         IF ~ok
         THEN IF gm.tries + 1 >= ReadAttempts
              THEN gm' = [gm EXCEPT !.gets = @ + 1, !.tries = 0, !.pc = "done",
                                    !.out = GmRaised("RetryError")]
              ELSE gm' = [gm EXCEPT !.gets = @ + 1, !.tries = @ + 1]
         ELSE LET code == ParseCode(m)
                  parsed == [msg |-> m, code |-> code]
              IN  IF TruthyText(code)
                  THEN gm' = [gm EXCEPT !.gets = @ + 1, !.tries = 0, !.read = @ + 1,
                                        !.last = parsed, !.pc = "done",
                                        !.out = GmReturned(code)]
                  ELSE IF gm.read + 1 = gm.unread
                  THEN gm' = [gm EXCEPT !.gets = @ + 1, !.tries = 0, !.read = @ + 1,
                                        !.last = parsed, !.pc = "done",
                                        !.out = GmReturned(NoStr)]
                  ELSE gm' = [gm EXCEPT !.gets = @ + 1, !.tries = 0, !.read = @ + 1,
                                        !.last = parsed]
    /\ UNCHANGED <<loginVars, db>>

NextGmail == OAuth2Login \/ GetService \/ ListUnread \/ ReadMessage

\* gmail_get_email_code is called once, with any credentials; nobody logs in.
InitGmail ==
    /\ Start
    /\ acc = NewAccount(FALSE, EmptyMap, "creds", None)
    /\ surface = "any"
    /\ db = DbIdle
    /\ gm \in {GmCalled(cr) : cr \in Credentials}

SpecGmail == InitGmail /\ [][NextGmail]_vars

\* ------------------------------------------ account.py: to_rs and from_rs
\* Last instant a timestamp of an account can show.
MaxInstant == 1

\* An optional value that is None.
Absent == [kind |-> "None"]

\* datetime objects: UTC instants, as utc.now() makes them.
Datetimes == {[kind |-> "datetime", instant |-> i, tzinfo |-> "UTC"] : i \in 0..MaxInstant}

\* datetime.isoformat(): the text of the instant followed by the offset.
Isoformat(dt) == [kind |-> "str", text |-> <<dt.instant, "+00:00">>]

\* utc.from_iso(iso): the UTC instant an ISO-8601 text names.
FromIso(iso) == [kind |-> "datetime", instant |-> iso.text[1], tzinfo |-> "UTC"]

\* JSON values: numbers and strings.
JsonNumber(n) == [t |-> "number", v |-> n]
JsonString(s) == [t |-> "string", v |-> s]

\* json.dumps of a dict whose values are JSON values already: the text of an
\* object, one member for each key.
JsonDumps(m) == {<<k, m[k]>> : k \in DOMAIN m}

\* json.loads of the text of an object: a dict of JSON values.
JsonLoads(text) ==
    [k \in {mem[1] : mem \in text} |-> (CHOOSE mem \in text : mem[1] = k)[2]]

\* How json.dumps writes the values of a dict of int, of str, and (with
\* default=lambda x: x.isoformat()) of datetime.
JsonOfInts(m) == [k \in DOMAIN m |-> JsonNumber(m[k])]
JsonOfStrs(m) == [k \in DOMAIN m |-> JsonString(m[k])]
JsonOfDatetimes(m) == [k \in DOMAIN m |-> JsonString(Isoformat(m[k]))]

\* The Python values of a dict of JSON values.
Untag(m) == [k \in DOMAIN m |-> m[k].v]

\* Variant: `isinstance(v, str)`.
IsStrInstead(j) == j.t = "string"

\* from_rs, line 38: `isinstance(v, int)` on a value json.loads gave back.
IsInt(j) == j.t = "number"

\* from_rs, line 38: {k: v for k, v in m.items() if isinstance(v, int)}
KeepInts(m) == [k \in {x \in DOMAIN m : IsInt(m[x])} |-> m[k]]

\* from_rs, line 37: {k: utc.from_iso(v) for k, v in m.items()}
FromIsoAll(m) == [k \in DOMAIN m |-> FromIso(m[k])]

\* GmailCredentials objects; token and expiry vary.
CredsFields ==
    {"token", "refresh_token", "client_id", "client_secret", "scopes",
     "token_uri", "universe_domain", "account", "expiry"}
GmailCredentialsObjects ==
    {[kind |-> "GmailCredentials",
      fields |-> [f \in CredsFields |->
                    IF f = "token" THEN tok ELSE IF f = "expiry" THEN exp ELSE f]] :
        tok \in {"t1", "t2"}, exp \in {"", "2024"}}

\* JSONTrait.json(): the JSON text of all the fields of the object.
CredsJson(g) == [kind |-> "str", text |-> JsonDumps(JsonOfStrs(g.fields))]

\* GmailCredentials(**json.loads(text))
CredsFromJson(s) == [kind |-> "GmailCredentials", fields |-> Untag(JsonLoads(s.text))]

\* Account objects with every combination of empty and non-empty locks,
\* stats, headers and cookies, with and without gmail_credentials, mfa_code
\* and last_used.
QueueMaps(values) == UNION {[D -> values] : D \in SUBSET {"q"}}
DbAccounts ==
    {[NewAccount(active, EmptyMap, g, mfa) EXCEPT
        !.locks = lk, !.stats = st, !.headers = hd, !.cookies = ck, !.last_used = lu] :
        active \in BOOLEAN, g \in GmailCredentialsObjects \cup {Absent},
        mfa \in {None, "seed"}, lk \in QueueMaps(Datetimes), st \in QueueMaps(0..1),
        hd \in Maps, ck \in Maps, lu \in Datetimes \cup {Absent}}

\* Account.to_rs, lines 48-57.
ToRs(a) ==
    [a EXCEPT
        !.locks = JsonDumps(JsonOfDatetimes(a.locks)),
        !.stats = JsonDumps(JsonOfInts(a.stats)),
        !.headers = JsonDumps(JsonOfStrs(a.headers)),
        !.cookies = JsonDumps(JsonOfStrs(a.cookies)),
        !.gmail_credentials =
            IF a.gmail_credentials /= Absent THEN CredsJson(a.gmail_credentials) ELSE Absent,
        !.mfa_code = a.mfa_code,
        !.last_used = IF a.last_used /= Absent THEN Isoformat(a.last_used) ELSE Absent]

\* Account.from_rs, lines 35-46.
FromRs(rs) ==
    [rs EXCEPT
        !.locks = FromIsoAll(Untag(JsonLoads(rs.locks))),
        !.stats = Untag(KeepInts(JsonLoads(rs.stats))),
        !.headers = Untag(JsonLoads(rs.headers)),
        !.cookies = Untag(JsonLoads(rs.cookies)),
        !.gmail_credentials =
            IF rs.gmail_credentials /= Absent
            THEN CredsFromJson(rs.gmail_credentials) ELSE Absent,
        !.mfa_code = rs.mfa_code,
        !.active = rs.active,
        !.last_used = IF rs.last_used /= Absent THEN FromIso(rs.last_used) ELSE Absent]

\* An account is about to be written and read back.
DbNew(a) == [pc |-> "new", account |-> a, rs |-> Absent, loaded |-> Absent]

\* The account is turned into a row.
Save ==
    /\ db.pc = "new"
    /\ db' = [db EXCEPT !.pc = "saved", !.rs = ToRs(db.account)]
    /\ UNCHANGED <<loginVars, gm>>

\* The row is turned into an account.
Load ==
    /\ db.pc = "saved"
    /\ db' = [db EXCEPT !.pc = "loaded", !.loaded = FromRs(db.rs)]
    /\ UNCHANGED <<loginVars, gm>>

NextDb == Save \/ Load

InitDb ==
    /\ Start
    /\ acc = NewAccount(FALSE, EmptyMap, None, None)
    /\ surface = "any"
    /\ gm = GmIdle
    /\ db \in {DbNew(a) : a \in DbAccounts}

SpecDb == InitDb /\ [][NextDb]_vars

\* ------------------------------------------- login of a used account
\* Inactive accounts that have been in use: locks, stats, proxy, error_msg
\* and last_used are set, and headers and cookies are left over from an
\* earlier session.
UsedAccounts ==
    {[NewAccount(FALSE, artifacts, "creds", "seed") EXCEPT
        !.locks = [q \in {"q"} |-> CHOOSE dt \in Datetimes : dt.instant = 0],
        !.stats = [q \in {"q"} |-> 1],
        !.proxy = "proxy",
        !.error_msg = "msg",
        !.last_used = CHOOSE dt \in Datetimes : dt.instant = MaxInstant] :
        artifacts \in {[k \in Keys |-> "b"]}}

InitUsed ==
    /\ acc \in UsedAccounts
    /\ AtRest
    /\ surface = "any"
    /\ gm = GmIdle
    /\ db = DbIdle

\* One thread calls login_alternative on a used account.
SpecUsed == InitUsed /\ [][Next]_vars

\* ----------------------------------------------------------------- claims
\* The call of c went through the attempt loop for an inactive account and
\* login_alternative returned.
LoginRan(c) == pc[c] = "done" /\ ~pre[c].active

\* The last attempt of c's call reached the landmark and returned the
\* session's cookies and headers (the Authenticated state).
Authenticated(c) ==
    /\ ends[c] /= << >>
    /\ "nav" \in seen[c]
    /\ Last(ends[c]) = Returned("nav")
    /\ result[c].kind = "pair"

\* C1: login_alternative never ends by raising: whatever the page does in
\* an attempt, no exception of the attempt gets out of login_alternative.
C1_NothingEscapesLogin ==
    \A c \in Callers : ~(pc[c] = "raised" /\ ends[c] /= << >>)

\* C2: a call on an account that is already active returns it with every
\* field unchanged, and opens no browser session, performs no IMAP login and
\* retrieves no e-mail code.
C2_ActiveIsNoOp ==
    \A c \in Callers :
        (pre[c].active /\ pc[c] /= "entry") =>
            /\ pc[c] \in {"idle", "done"}
            /\ acc = pre[c]
            /\ attempt[c] = 0
            /\ imap[c] = None
            /\ polls[c] = << >>

C2_Witness ==
    pc[MainCaller] = "done" /\ pre[MainCaller].active /\ calls >= 1

\* C3 as stated: whenever the state machine reaches Authenticated for an
\* inactive account, the returned account is active and carries the
\* extracted headers and cookies.
C3_AuthenticatedStored ==
    \A c \in Callers :
        (LoginRan(c) /\ Authenticated(c)) =>
            /\ acc.active
            /\ acc.headers = result[c].headers
            /\ acc.cookies = result[c].cookies

\* C3 amended: Authenticated with a non-empty cookie map and a non-empty
\* header map gives an active account carrying exactly these maps;
\* Authenticated with an empty cookie or header map gives an inactive account
\* whose headers and cookies are the ones it had before the call.
C3_AuthenticatedNonEmptyStored ==
    \A c \in Callers :
        (LoginRan(c) /\ Authenticated(c)) =>
            IF Truthy(result[c].cookies) /\ Truthy(result[c].headers)
            THEN /\ acc.active
                 /\ acc.headers = result[c].headers
                 /\ acc.cookies = result[c].cookies
            ELSE /\ ~acc.active
                 /\ acc.headers = pre[c].headers
                 /\ acc.cookies = pre[c].cookies

C3_Witness ==
    /\ LoginRan(MainCaller)
    /\ Authenticated(MainCaller)
    /\ Truthy(result[MainCaller].cookies)
    /\ Truthy(result[MainCaller].headers)
    /\ result[MainCaller].cookies /= result[MainCaller].headers
    /\ acc.active

\* C4: after a failed login of an inactive account the returned account is
\* inactive and carries a diagnostic message in error_msg, newly set.
C4_FailureRecordsDiagnostic ==
    \A c \in Callers :
        (LoginRan(c) /\ ~LoginSucceeded(result[c])) =>
            /\ ~acc.active
            /\ acc.error_msg /= None
            /\ acc.error_msg /= pre[c].error_msg

\* C5: an active account has non-empty headers and cookies, and a call whose
\* session yielded an empty cookie map or an empty header map leaves the
\* account inactive.
C5_ActiveHasArtifacts ==
    /\ acc.active => (Truthy(acc.headers) /\ Truthy(acc.cookies))
    /\ \A c \in Callers :
         (LoginRan(c) /\ Authenticated(c)
            /\ (~Truthy(result[c].cookies) \/ ~Truthy(result[c].headers)))
         => ~acc.active

C5_Witness ==
    /\ LoginRan(MainCaller)
    /\ acc.active
    /\ pre[MainCaller].headers = EmptyMap
    /\ pre[MainCaller].cookies = EmptyMap

\* The caller is inside an attempt, its browser session open.
InAttempt(c) ==
    pc[c] \in {"login_elem", "next1", "code1", "email1", "password", "button",
               "code2", "email2", "mfa", "nav"}

\* C6: two concurrent callers of login_alternative on the same account never
\* both have a browser session of an attempt open at the same time.
C6_NoConcurrentSessions ==
    \A c1, c2 \in Callers :
        c1 /= c2 => ~(InAttempt(c1) /\ sess[c1] > 0 /\ InAttempt(c2) /\ sess[c2] > 0)

\* C7: for an account without gmail_credentials whose IMAP session was
\* logged in by login_alternative, every e-mail challenge is resolved by
\* polling IMAP.
C7_ImapChannelUsed ==
    \A c \in Callers :
        (acc.gmail_credentials = None /\ imap[c] /= None) =>
            \A i \in 1..Len(polls[c]) : polls[c][i].via = "imap"

\* Every finished attempt of c's call ended on the missing password field.
PasswordNeverRendered(c) ==
    /\ ends[c] /= << >>
    /\ \A i \in 1..Len(ends[c]) : ends[c][i] = Raised("ElementLoadError", "password")

\* C8: when the password field renders in no attempt, exactly MaxAttempts
\* attempts run, each ending in ElementLoadError, no further attempt starts,
\* login_with_drissionpage gives (None, None) instead of raising and
\* login_alternative returns the account inactive.
C8_PasswordTimeout ==
    \A c \in Callers :
        PasswordNeverRendered(c) =>
            /\ Len(ends[c]) <= MaxAttempts
            /\ attempt[c] <= MaxAttempts
            /\ pc[c] /= "raised"
            /\ pc[c] \in {"store", "done"} =>
                 (Len(ends[c]) = MaxAttempts /\ result[c] = NoneNone)
            /\ pc[c] = "done" => ~acc.active

C8_Witness ==
    /\ PasswordNeverRendered(MainCaller)
    /\ pc[MainCaller] = "done"
    /\ Len(ends[MainCaller]) = MaxAttempts

\* The ways an attempt can end that the decorator retries.
RetryableEnds ==
    {Raised("PageLoadError", "login_elem"),
     Raised("ElementLoadError", "password"),
     Raised("ElementLoadError", "button")}

\* C9: one call of login_with_drissionpage starts at most MaxAttempts
\* attempts, and every attempt that was followed by another one ended in
\* PageLoadError or ElementLoadError; an attempt that returned, or raised
\* anything else, is the last one.
C9_RetryPolicy ==
    \A c \in Callers :
        /\ attempt[c] <= MaxAttempts
        /\ Len(ends[c]) <= attempt[c]
        /\ attempt[c] <= Len(ends[c]) + 1
        /\ \A i \in 1..Len(ends[c]) : i < attempt[c] => ends[c][i] \in RetryableEnds
        /\ (pc[c] = "open" /\ ends[c] /= << >>) => Last(ends[c]) \in RetryableEnds

C9_Witness ==
    /\ attempt[MainCaller] = MaxAttempts
    /\ InAttempt(MainCaller)
    /\ ends[MainCaller][1] /= ends[MainCaller][2]

\* C10: on a page that presents the username input, "Next", the password
\* input, the login button and the landmark, and no code, e-mail or MFA
\* input, the attempt returns the session's cookies and headers, having typed
\* the username and the password only; as long as no optional input was
\* presented, no e-mail code is retrieved and no TOTP code computed.
C10_PlainFlowAuthenticates ==
    \A c \in Callers :
        /\ seen[c] \cap OptionalSteps = {} => (polls[c] = << >> /\ totp[c] = 0)
        /\ seen[c] = RequiredSteps =>
             /\ pc[c] \in {"tenacity", "store", "done"}
             /\ Last(ends[c]) = Returned("nav")
             /\ result[c] = Artifacts(page[c].cookies, page[c].headers)
             /\ typed[c] = << <<"username", acc.username>>, <<"password", acc.password>> >>

C10_Witness ==
    /\ seen[MainCaller] = RequiredSteps
    /\ pc[MainCaller] = "done"
    /\ Truthy(page[MainCaller].cookies)
    /\ attempt[MainCaller] = 1

\* Position of the first <<field, _>> in what was typed; 0 when there is none.
FirstTyped(c, field) ==
    LET at == {i \in 1..Len(typed[c]) : typed[c][i][1] = field} IN
    IF at = {} THEN 0 ELSE CHOOSE i \in at : \A j \in at : i <= j

\* C11: when the code input is presented before the password and the
\* retriever returns a code, that code is what is typed into the input, right
\* after the username; the attempt does not end there but goes on to the
\* password, which is typed after the code and never before it.
C11_CodeTypedBeforePassword ==
    \A c \in Callers :
        ("code1" \in seen[c] /\ polls[c][1].got \in Codes) =>
            /\ Len(typed[c]) >= 2
            /\ typed[c][1] = <<"username", acc.username>>
            /\ typed[c][2] = <<"code", polls[c][1].got>>
            /\ FirstTyped(c, "password") /= 0 => FirstTyped(c, "password") > 2
            /\ InAttempt(c) \/ Last(ends[c]).at \notin {"login_elem", "next1", "code1"}

C11_Witness ==
    /\ "code1" \in seen[MainCaller]
    /\ polls[MainCaller][1].got = "c2"
    /\ "password" \in seen[MainCaller]
    /\ "code2" \notin seen[MainCaller]
    /\ pc[MainCaller] = "done"

\* The steps of an attempt that follow a step.
StepsAfter(step) ==
    IF step = "code1"
    THEN {"email1", "password", "button", "code2", "email2", "mfa", "nav"}
    ELSE IF step = "code2" THEN {"email2", "mfa", "nav"}
    ELSE IF step = "mfa" THEN {"nav"}
    ELSE {}

\* Number of values typed into a field in this attempt.
TimesTyped(c, field) ==
    Cardinality({i \in 1..Len(typed[c]) : typed[c][i][1] = field})

\* The last retrieval of c's attempt gave no code: no usable strategy, an
\* exception, or no code found.
RetrievalFailed(c) == polls[c] /= << >> /\ Last(polls[c]).got \notin Codes

\* C14: when a code input is presented, before or after the password, and
\* the retrieval has no usable strategy, raises, or returns no code, the
\* attempt ends there with (None, None): nothing is typed into that input,
\* no later step of the attempt runs, the session is closed, and no further
\* attempt starts.
C14_EmailChallengeFailureIsTerminal ==
    \A c \in Callers :
        RetrievalFailed(c) =>
            /\ pc[c] \in {"tenacity", "store", "done"}
            /\ Last(ends[c]).at \in {"code1", "code2"}
            /\ Last(ends[c]) = Returned(Last(ends[c]).at)
            /\ Last(ends[c]).at \in seen[c]
            /\ seen[c] \cap StepsAfter(Last(ends[c]).at) = {}
            /\ result[c] = NoneNone
            /\ TimesTyped(c, "code") = Len(polls[c]) - 1
            /\ ~live[c]
            /\ attempt[c] = Len(ends[c])

C14_Witness ==
    /\ RetrievalFailed(MainCaller)
    /\ Last(polls[MainCaller]).got = "raise"
    /\ Len(polls[MainCaller]) = 2
    /\ attempt[MainCaller] = 2
    /\ pc[MainCaller] = "done"

\* The latest attempt of c got as far as the wait for the landmark and is
\* over.
PastLandmarkWait(c) ==
    /\ ends[c] /= << >>
    /\ Len(ends[c]) = attempt[c]
    /\ Last(ends[c]).at = "nav"

\* C16: an attempt that returns cookies and headers saw the logged-in
\* landmark in that attempt, after typing the username and then the
\* password; an attempt in which the landmark does not show up returns
\* (None, None), extracts nothing and is the last attempt.
C16_ArtifactsOnlyFromAuthenticated ==
    \A c \in Callers :
        PastLandmarkWait(c) =>
            /\ pc[c] \in {"tenacity", "store", "done"}
            /\ result[c].kind = "pair" =>
                 /\ "nav" \in seen[c]
                 /\ FirstTyped(c, "username") = 1
                 /\ FirstTyped(c, "password") > 1
            /\ "nav" \notin seen[c] =>
                 /\ result[c] = NoneNone
                 /\ page[c] = BlankPage

\* C17: when the MFA input shows up and the account has no seed, the attempt
\* ends there with (None, None), nothing is typed into the input, no code is
\* computed and no further attempt starts; when the account has a seed, one
\* code is computed in that attempt and the value typed is the code of the
\* seed for the window the clock shows at that moment.
C17_MfaChallenge ==
    \A c \in Callers :
        "mfa" \in seen[c] =>
            IF ~TruthyStr(acc.mfa_code)
            THEN /\ pc[c] \in {"tenacity", "store", "done"}
                 /\ Last(ends[c]) = Returned("mfa")
                 /\ attempt[c] = Len(ends[c])
                 /\ result[c] = NoneNone
                 /\ TimesTyped(c, "mfa") = 0
                 /\ totp[c] = 0
                 /\ seen[c] \cap StepsAfter("mfa") = {}
            ELSE /\ TimesTyped(c, "mfa") = 1
                 /\ totp[c] = 1
                 /\ typed[c][FirstTyped(c, "mfa")] =
                        <<"mfa", [seed |-> acc.mfa_code, window |-> now]>>

C17_Witness ==
    /\ "mfa" \in seen[MainCaller]
    /\ TruthyStr(acc.mfa_code)
    /\ now = MaxTime
    /\ calls = 2
    /\ attempt[MainCaller] = 2
    /\ acc.active

IsCodeInput(e) == e[1] = "code"

\* The values typed into code inputs in c's attempt, in order.
CodesTyped(c) == SelectSeq(typed[c], IsCodeInput)

\* C18: in every attempt the retriever has been invoked once for each code
\* input presented so far (twice when the input shows up both before and
\* after the password), every invocation but a failed last one has had its
\* code typed, and the i-th code typed is the one the i-th invocation
\* returned.
C18_IndependentPolls ==
    \A c \in Callers :
        /\ Len(polls[c]) = Cardinality(seen[c] \cap {"code1", "code2"})
        /\ Len(CodesTyped(c)) = Len(polls[c]) - (IF RetrievalFailed(c) THEN 1 ELSE 0)
        /\ \A i \in 1..Len(CodesTyped(c)) :
             CodesTyped(c)[i] = <<"code", polls[c][i].got>>

C18_Witness ==
    /\ {"code1", "code2"} \subseteq seen[MainCaller]
    /\ Len(polls[MainCaller]) = 2
    /\ polls[MainCaller][1].got = "c1"
    /\ polls[MainCaller][2].got = "c2"
    /\ pc[MainCaller] = "done"

\* C20: when an attempt is over, however it ended, the session it opened is
\* closed; so while an attempt runs, its own session is the only one of the
\* caller that is open.
C20_SessionClosedByItsAttempt ==
    \A c \in Callers :
        /\ (ends[c] /= << >> /\ Len(ends[c]) = attempt[c]) => ~live[c]
        /\ InAttempt(c) => sess[c] = 1

\* C12: a message whose sender address is not info@x.com (compared without
\* regard to case) yields no code from _parse_code, whatever its subject.
C12_OtherSenderYieldsNoCode ==
    Lower(AddressOf(gm.last.msg.from)) /= PlatformSender => gm.last.code = NoStr

\* get_emails is over and returned None: every message of the listing was
\* read and none gave a code.
NoneQualified ==
    /\ gm.pc = "done"
    /\ gm.out = GmReturned(NoStr)

\* C15: one invocation issues the unread-list request at most NumRetries
\* times, and it gives up without a code only after the NumRetries-th
\* listing: an empty listing and a listing in which no message qualifies both
\* lead to another listing before that.
C15_PollsUntilCeiling ==
    /\ gm.pc /= "idle" => gm.lists <= NumRetries
    /\ NoneQualified => gm.lists = NumRetries

\* What get_email_code hands to login_with_drissionpage for an outcome of
\* gmail_get_email_code, in the terms of Retrieved.
Handed(out) ==
    IF out.how = "raise" THEN "raise"
    ELSE IF TruthyText(out.code) THEN CHOOSE code \in Codes : TRUE
    ELSE None

\* The credentials gmail_get_email_code was called with are invalid and
\* cannot be refreshed: not expired, or without a refresh token.
Unrefreshable == ~gm.creds.valid /\ ~(gm.creds.expired /\ gm.creds.refresh_token)

\* C19: with invalid credentials that cannot be refreshed,
\* gmail_get_email_code raises at once: no refresh, no unread listing and no
\* message get is requested, nothing is retried, and what the login attempt
\* gets is the exception, on which it ends Failed (C14).
C19_AuthFailureAbortsAtOnce ==
    Unrefreshable =>
        /\ gm.pc \in {"oauth", "done"}
        /\ gm.refreshes = 0 /\ gm.lists = 0 /\ gm.gets = 0
        /\ gm.pc = "done" =>
             /\ gm.out = GmRaised("Exception")
             /\ Handed(gm.out) = "raise"
             /\ Handed(gm.out) \in Retrieved("gmail") \ Codes

C19_Witness ==
    /\ Unrefreshable
    /\ gm.creds.expired
    /\ gm.pc = "done"

\* C13: for every account, with locks, stats, headers and cookies empty or
\* not and gmail_credentials, mfa_code and last_used present or absent,
\* from_rs(to_rs(account)) is equal to the account, field by field.
C13_RoundTrip ==
    db.pc = "loaded" => db.loaded = db.account

C13_Witness ==
    /\ db.pc = "loaded"
    /\ db.account.locks /= EmptyMap
    /\ db.account.stats /= EmptyMap
    /\ db.account.headers /= EmptyMap
    /\ db.account.cookies /= db.account.headers
    /\ db.account.gmail_credentials /= Absent
    /\ db.account.last_used /= Absent
    /\ db.loaded.last_used.instant = MaxInstant

\* An account with active, headers and cookies blanked: what is left are
\* username, password, email, email_password, user_agent, gmail_credentials,
\* mfa_code, proxy, error_msg, locks, stats and last_used.
Frame(a) == [a EXCEPT !.active = FALSE, !.headers = EmptyMap, !.cookies = EmptyMap]

\* C21: from the start of a call of login_alternative to its end, however it
\* ends, every field of the account but active, headers and cookies has the
\* value it had when the call started; until the result is stored the whole
\* account has, and after a failed login headers and cookies still have.
C21_LoginFrame ==
    \A c \in Callers :
        pc[c] /= "idle" =>
            /\ Frame(acc) = Frame(pre[c])
            /\ pc[c] /= "done" => acc = pre[c]
            /\ (pc[c] = "done" /\ ~LoginSucceeded(result[c])) =>
                 /\ acc.headers = pre[c].headers
                 /\ acc.cookies = pre[c].cookies

C21_Witness ==
    /\ LoginRan(MainCaller)
    /\ ends[MainCaller] /= << >>
    /\ ~LoginSucceeded(result[MainCaller])
    /\ Truthy(pre[MainCaller].cookies)
    /\ acc.cookies = pre[MainCaller].cookies
    /\ acc.locks /= EmptyMap
    /\ calls = 2

====
